---- MODULE Spec2Model ----
(***************************************************************************)
(* Model of backend/remove_large_files.py: the blob callback filter_file   *)
(* that a history-rewriting driver invokes once per file revision.         *)
(*                                                                         *)
(* A byte sequence (Python bytes) is a sequence of integers in 0..255.     *)
(* The value returned by a call is either None or a bytes object; the two  *)
(* are kept apart by a tag, as Python keeps None apart from b"".           *)
(***************************************************************************)
EXTENDS Integers, Sequences, FiniteSets

VARIABLES pc, path, blob, commit, result

vars == <<pc, path, blob, commit, result>>

(***************************************************************************)
(* Bounds of the explored input space.                                     *)
(***************************************************************************)
\* longest byte string appended to a base path
MaxExt == 2
\* longest blob
MaxBlob == 2
\* number of concurrent callers in SpecConc
NumWorkers == 2

(***************************************************************************)
(* Python values.                                                          *)
(***************************************************************************)
\* the object None
None == [kind |-> "None"]

\* a bytes object with content b
Bytes(b) == [kind |-> "bytes", val |-> b]

\* the result slot of a call that has not returned
NoValue == [kind |-> "unset"]

(***************************************************************************)
(* The two literals of the condition.                                      *)
(***************************************************************************)
\* b"backend/vectorstore/vectorstore.hnsw"
PREFIX_PATTERN ==
    << 98, 97, 99, 107, 101, 110, 100, 47,
       118, 101, 99, 116, 111, 114, 115, 116, 111, 114, 101, 47,
       118, 101, 99, 116, 111, 114, 115, 116, 111, 114, 101,
       46, 104, 110, 115, 119 >>

\* b"backend/vectorstore/checkpoint.json"
EXACT_PATTERN ==
    << 98, 97, 99, 107, 101, 110, 100, 47,
       118, 101, 99, 116, 111, 114, 115, 116, 111, 114, 101, 47,
       99, 104, 101, 99, 107, 112, 111, 105, 110, 116,
       46, 106, 115, 111, 110 >>

(***************************************************************************)
(* bytes.startswith and bytes.__eq__.                                      *)
(***************************************************************************)
\* faulty variant: compares only as many bytes as the shorter operand has
startswith_common(s, prefix) ==
    LET n == IF Len(s) < Len(prefix) THEN Len(s) ELSE Len(prefix)
    IN  SubSeq(s, 1, n) = SubSeq(prefix, 1, n)

\* faulty variant: whole-string comparison in place of the prefix test
startswith_whole(s, prefix) == s = prefix

\* faulty variant: ASCII case folded before the prefix test
startswith_nocase(s, prefix) ==
    LET low(b) == IF b \in 65..90 THEN b + 32 ELSE b
    IN  /\ Len(s) >= Len(prefix)
        /\ \A i \in 1..Len(prefix) : low(s[i]) = low(prefix[i])

\* s.startswith(prefix) for bytes s, prefix
startswith(s, prefix) ==
    /\ Len(s) >= Len(prefix)
    /\ SubSeq(s, 1, Len(prefix)) = prefix

\* faulty variant: equality decided on the first Len(b) bytes only
bytes_eq_prefix(a, b) ==
    /\ Len(a) >= Len(b)
    /\ SubSeq(a, 1, Len(b)) = b

\* faulty variant: never equal
bytes_eq_never(a, b) == FALSE

\* a == b for bytes a, b
bytes_eq(a, b) == a = b

(***************************************************************************)
(* Inputs the driver supplies.                                             *)
(***************************************************************************)
SeqsUpTo(S, n) == UNION { [1..k -> S] : k \in 0..n }

Prefixes(p) == { SubSeq(p, 1, k) : k \in 0..Len(p) }

Patterns == { PREFIX_PATTERN, EXACT_PATTERN }

\* position i of p is a path separator
IsSep(p, i) == p[i] = 47

\* one letter of p in the other case
CaseVariants(p) ==
    { [p EXCEPT ![i] = p[i] - 32] : i \in { j \in 1..Len(p) : p[j] \in 97..122 } }

\* every letter of p in upper case
UpperCase(p) == [i \in 1..Len(p) |-> IF p[i] \in 97..122 THEN p[i] - 32 ELSE p[i]]

\* one separator of p written as a backslash
SepVariants(p) ==
    { [p EXCEPT ![i] = 92] : i \in { j \in 1..Len(p) : IsSep(p, j) } }

\* one separator of p doubled, or followed by a ./ component
InsertVariants(p) ==
    UNION { { SubSeq(p, 1, i) \o ins \o SubSeq(p, i + 1, Len(p)) :
                ins \in { <<47>>, <<46, 47>> } } :
            i \in { j \in 1..Len(p) : IsSep(p, j) } }

\* p behind a leading separator or a leading ./
LeadVariants(p) == { <<47>> \o p, <<46, 47>> \o p }

\* b"backend/app.py"
AppPath == << 98, 97, 99, 107, 101, 110, 100, 47, 97, 112, 112, 46, 112, 121 >>

Bases ==
    UNION { Prefixes(p) \cup CaseVariants(p) \cup { UpperCase(p) }
              \cup SepVariants(p) \cup InsertVariants(p) \cup LeadVariants(p) :
            p \in Patterns }
    \cup { AppPath }

\* bytes appended to a base: ".", "/" and "f"
ExtBytes == { 46, 47, 102 }

Exts == SeqsUpTo(ExtBytes, MaxExt)

Paths == { b \o e : b \in Bases, e \in Exts }

\* blob bytes: NUL and "{"
BlobBytes == { 0, 123 }

Blobs == SeqsUpTo(BlobBytes, MaxBlob)

Commits == { "c1", "c2" }

\* the inputs of the concurrent callers
ConcPaths ==
    { <<>>, PREFIX_PATTERN, PREFIX_PATTERN \o <<102>>,
      EXACT_PATTERN, EXACT_PATTERN \o <<46>>, AppPath }

ConcBlobs == { <<>>, <<0>> }

(***************************************************************************)
(* The callers.  Spec has the driver alone; SpecConc has NumWorkers        *)
(* callers whose calls interleave line by line.                            *)
(***************************************************************************)
Callers == DOMAIN pc

Idle(W) ==
    /\ pc = [w \in W |-> "idle"]
    /\ path = [w \in W |-> <<>>]
    /\ blob = [w \in W |-> <<>>]
    /\ commit = [w \in W |-> "c1"]
    /\ result = [w \in W |-> NoValue]

\* the driver calling alone
Driver == { 1 }

Workers == 1..NumWorkers

Init == Idle(Driver)

InitConc == Idle(Workers)

\* def filter_file(path, blob, commit): the caller binds the three arguments
Enter(w, p, b, c) ==
    /\ pc' = [pc EXCEPT ![w] = "line4"]
    /\ path' = [path EXCEPT ![w] = p]
    /\ blob' = [blob EXCEPT ![w] = b]
    /\ commit' = [commit EXCEPT ![w] = c]
    /\ result' = [result EXCEPT ![w] = NoValue]

\* the driver calls filter_file for a file revision
Call(w) ==
    /\ pc[w] = "idle"
    /\ \E p \in Paths, b \in Blobs, c \in Commits : Enter(w, p, b, c)

\* a worker calls filter_file for a file revision
CallConc(w) ==
    /\ pc[w] = "idle"
    /\ \E p \in ConcPaths, b \in ConcBlobs, c \in Commits : Enter(w, p, b, c)

\* faulty variant: indexes path[0] before the test, which raises on an empty path
Line4_index(w) ==
    /\ pc[w] = "line4"
    /\ pc' = [pc EXCEPT ![w] =
                IF path[w] = <<>> THEN "raised"
                ELSE IF startswith(path[w], PREFIX_PATTERN) THEN "line6" ELSE "line5"]
    /\ UNCHANGED <<path, blob, commit, result>>

\* if path.startswith(b"backend/vectorstore/vectorstore.hnsw") or \
Line4(w) ==
    /\ pc[w] = "line4"
    /\ pc' = [pc EXCEPT ![w] =
                IF startswith(path[w], PREFIX_PATTERN) THEN "line6" ELSE "line5"]
    /\ UNCHANGED <<path, blob, commit, result>>

\*    path == b"backend/vectorstore/checkpoint.json":
Line5(w) ==
    /\ pc[w] = "line5"
    /\ pc' = [pc EXCEPT ![w] =
                IF bytes_eq(path[w], EXACT_PATTERN) THEN "line6" ELSE "line7"]
    /\ UNCHANGED <<path, blob, commit, result>>

\* faulty variant: returns empty bytes in place of None
Line6_empty(w) ==
    /\ pc[w] = "line6"
    /\ pc' = [pc EXCEPT ![w] = "done"]
    /\ result' = [result EXCEPT ![w] = Bytes(<<>>)]
    /\ UNCHANGED <<path, blob, commit>>

\*     return None
Line6(w) ==
    /\ pc[w] = "line6"
    /\ pc' = [pc EXCEPT ![w] = "done"]
    /\ result' = [result EXCEPT ![w] = None]
    /\ UNCHANGED <<path, blob, commit>>

\* faulty variant: drops the last byte of the blob
Line7_truncate(w) ==
    /\ pc[w] = "line7"
    /\ pc' = [pc EXCEPT ![w] = "done"]
    /\ result' = [result EXCEPT ![w] =
                    Bytes(SubSeq(blob[w], 1, Len(blob[w]) - 1))]
    /\ UNCHANGED <<path, blob, commit>>

\* faulty variant: keeps the blob only for commit c1
Line7_commit(w) ==
    /\ pc[w] = "line7"
    /\ pc' = [pc EXCEPT ![w] = "done"]
    /\ result' = [result EXCEPT ![w] =
                    IF commit[w] = "c1" THEN Bytes(blob[w]) ELSE None]
    /\ UNCHANGED <<path, blob, commit>>

\* faulty variant: returns from a buffer that any caller may have filled last
Line7_shared(w) ==
    /\ pc[w] = "line7"
    /\ pc' = [pc EXCEPT ![w] = "done"]
    /\ \E v \in Callers :
          result' = [u \in Callers |-> IF u = w THEN Bytes(blob[v]) ELSE result[u]]
    /\ UNCHANGED <<path, blob, commit>>

\* return blob
Line7(w) ==
    /\ pc[w] = "line7"
    /\ pc' = [pc EXCEPT ![w] = "done"]
    /\ result' = [result EXCEPT ![w] = Bytes(blob[w])]
    /\ UNCHANGED <<path, blob, commit>>

\* the caller takes the returned value and goes on to the next file revision
Take(w) ==
    /\ pc[w] = "done"
    /\ pc' = [pc EXCEPT ![w] = "idle"]
    /\ path' = [path EXCEPT ![w] = <<>>]
    /\ blob' = [blob EXCEPT ![w] = <<>>]
    /\ commit' = [commit EXCEPT ![w] = "c1"]
    /\ result' = [result EXCEPT ![w] = NoValue]

\* one line of the body of filter_file
Body(w) == Line4(w) \/ Line5(w) \/ Line6(w) \/ Line7(w)

Next ==
    \E w \in Driver :
        Call(w) \/ Line4(w) \/ Line5(w) \/ Line6(w) \/ Line7(w) \/ Take(w)

NextConc ==
    \E w \in Workers :
        CallConc(w) \/ Line4(w) \/ Line5(w) \/ Line6(w) \/ Line7(w) \/ Take(w)

Spec == Init /\ [][Next]_vars

SpecConc == InitConc /\ [][NextConc]_vars

(***************************************************************************)
(* Vocabulary of the properties, stated bytewise and independently of the  *)
(* operators the actions use.                                              *)
(***************************************************************************)
Returned(w) == pc[w] = "done"

\* p is pat followed by zero or more bytes
Extends(p, pat) ==
    /\ Len(p) >= Len(pat)
    /\ \A i \in 1..Len(pat) : p[i] = pat[i]

\* p is pat followed by at least one byte
StrictlyExtends(p, pat) == Extends(p, pat) /\ Len(p) > Len(pat)

\* p is pat with at least one byte cut off its end
ProperPrefixOf(p, pat) ==
    /\ Len(p) < Len(pat)
    /\ \A i \in 1..Len(p) : p[i] = pat[i]

Rule1(p) == Extends(p, PREFIX_PATTERN)

Rule2(p) == Len(p) = Len(EXACT_PATTERN) /\ Extends(p, EXACT_PATTERN)

Outcome(p, b) == IF Rule1(p) \/ Rule2(p) THEN None ELSE Bytes(b)

\* letters in lower case, backslashes as separators
Fold(p) ==
    [i \in 1..Len(p) |->
        IF p[i] \in 65..90 THEN p[i] + 32 ELSE IF p[i] = 92 THEN 47 ELSE p[i]]

RECURSIVE Squeeze(_)
\* doubled separators and ./ components removed
Squeeze(p) ==
    IF p = <<>> THEN <<>>
    ELSE IF Len(p) >= 2 /\ p[1] = 47 /\ p[2] = 47 THEN Squeeze(Tail(p))
    ELSE IF Len(p) >= 3 /\ p[1] = 47 /\ p[2] = 46 /\ p[3] = 47
         THEN Squeeze(SubSeq(p, 3, Len(p)))
    ELSE <<p[1]>> \o Squeeze(Tail(p))

\* the path a normalising comparison would see
Canon(p) == Tail(Squeeze(<<47>> \o Fold(p)))

\* the per-caller part of the state
Slot(w) == <<pc[w], path[w], blob[w], commit[w], result[w]>>

(***************************************************************************)
(* Properties.                                                             *)
(***************************************************************************)
\* C1: a call whose path is the rule 1 pattern or any extension of it
\* returns None, whatever the blob and the commit.
C1_PrefixDeleted ==
    \A w \in Callers :
        Returned(w) /\ Extends(path[w], PREFIX_PATTERN) => result[w] = None

C1_Witness ==
    \E w \in Callers :
        /\ Returned(w)
        /\ StrictlyExtends(path[w], PREFIX_PATTERN)
        /\ blob[w] # <<>>
        /\ result[w] = None

\* C2: a call whose path equals the rule 2 pattern returns None, whatever
\* the blob and the commit.
C2_ExactDeleted ==
    \A w \in Callers :
        Returned(w) /\ path[w] = EXACT_PATTERN => result[w] = None

C2_Witness ==
    \E w \in Callers :
        /\ Returned(w)
        /\ path[w] = EXACT_PATTERN
        /\ Len(blob[w]) = MaxBlob
        /\ commit[w] = "c2"
        /\ result[w] = None

\* C3: a call whose path neither extends the rule 1 pattern nor equals the
\* rule 2 pattern returns exactly the blob it was given.
C3_PassThrough ==
    \A w \in Callers :
        Returned(w) /\ ~Rule1(path[w]) /\ ~Rule2(path[w])
            => /\ result[w].kind = "bytes"
               /\ Len(result[w].val) = Len(blob[w])
               /\ \A i \in 1..Len(blob[w]) : result[w].val[i] = blob[w][i]

C3_Witness ==
    \E w \in Callers :
        /\ Returned(w)
        /\ path[w] = AppPath
        /\ Len(blob[w]) = MaxBlob
        /\ result[w] = Bytes(blob[w])

\* C4: None is returned exactly for the paths that match rule 1 or rule 2;
\* a non-matching path yields a bytes value, the empty one for an empty
\* blob, and a matching path never yields a bytes value.
C4_NoneIffMatch ==
    \A w \in Callers :
        Returned(w) =>
            /\ result[w] = None <=> (Rule1(path[w]) \/ Rule2(path[w]))
            /\ result[w].kind = "bytes" <=> ~(Rule1(path[w]) \/ Rule2(path[w]))
            /\ blob[w] = <<>> /\ result[w] # None => result[w] = Bytes(<<>>)

C4_Witness ==
    \E w \in Callers :
        /\ Returned(w)
        /\ ~Rule1(path[w]) /\ ~Rule2(path[w])
        /\ blob[w] = <<>>
        /\ result[w] = Bytes(<<>>)
        /\ result[w] # None

\* C5: a call whose path strictly extends the rule 2 pattern returns the
\* blob unchanged.
C5_ExactNotPrefix ==
    \A w \in Callers :
        Returned(w) /\ StrictlyExtends(path[w], EXACT_PATTERN)
            => result[w] = Bytes(blob[w])

C5_Witness ==
    \E w \in Callers :
        /\ Returned(w)
        /\ StrictlyExtends(path[w], EXACT_PATTERN)
        /\ blob[w] # <<>>
        /\ result[w] = Bytes(blob[w])

\* C6: a call whose path is not a rule pattern byte for byte, but becomes
\* one once letter case, separator style, leading or doubled separators and
\* ./ components are normalised, returns the blob unchanged.
C6_NoNormalization ==
    \A w \in Callers :
        Returned(w) /\ path[w] \notin Patterns /\ Canon(path[w]) \in Patterns
            => result[w] = Bytes(blob[w])

C6_Witness ==
    \E w \in Callers :
        /\ Returned(w)
        /\ path[w] \in CaseVariants(PREFIX_PATTERN)
        /\ Canon(path[w]) = PREFIX_PATTERN
        /\ blob[w] # <<>>
        /\ result[w] = Bytes(blob[w])

\* C7: a call never ends in a failure: every line reached can be executed,
\* control is always at one of the lines of the function, and the value
\* returned is None or the blob.
C7_NoFailure ==
    \A w \in Callers :
        /\ pc[w] \in { "idle", "line4", "line5", "line6", "line7", "done" }
        /\ pc[w] \in { "line4", "line5", "line6", "line7" } => ENABLED Body(w)
        /\ Returned(w) => result[w] \in { None, Bytes(blob[w]) }

C7_Witness ==
    \E w \in Callers :
        /\ Returned(w)
        /\ path[w] \in LeadVariants(EXACT_PATTERN)
        /\ Len(blob[w]) = MaxBlob
        /\ result[w] \in { None, Bytes(blob[w]) }

\* C8: a call whose path is empty, or any other proper prefix of a rule
\* pattern, returns the blob unchanged.
C8_ShortPaths ==
    \A w \in Callers :
        /\ Returned(w)
        /\ \/ path[w] = <<>>
           \/ ProperPrefixOf(path[w], PREFIX_PATTERN)
           \/ ProperPrefixOf(path[w], EXACT_PATTERN)
        => result[w] = Bytes(blob[w])

C8_Witness ==
    \E w \in Callers :
        /\ Returned(w)
        /\ path[w] = <<>>
        /\ blob[w] # <<>>
        /\ result[w] = Bytes(blob[w])

\* C9: two calls with the same path and blob return the same value, whatever
\* their commits.
C9_CommitIgnored ==
    \A v, w \in Callers :
        /\ Returned(v) /\ Returned(w)
        /\ path[v] = path[w]
        /\ blob[v] = blob[w]
        => result[v] = result[w]

C9_Witness ==
    \E v, w \in Callers :
        /\ Returned(v) /\ Returned(w)
        /\ path[v] = AppPath /\ path[w] = AppPath
        /\ blob[v] = blob[w] /\ blob[v] # <<>>
        /\ commit[v] # commit[w]
        /\ result[v] = result[w]

\* C10: in every interleaving, a step belongs to one call and leaves the
\* state of every other call untouched, and the value a call returns is
\* fixed by its own path and blob.
C10_Stateless ==
    [][ \E w \in Callers :
          /\ \A v \in Callers \ {w} : Slot(v)' = Slot(v)
          /\ Returned(w)' /\ ~Returned(w) => result'[w] = Outcome(path[w], blob[w])
      ]_vars

C10_Witness ==
    \E v, w \in Callers :
        /\ v # w
        /\ Returned(v)
        /\ pc[w] = "line7"
        /\ ~Rule1(path[v]) /\ ~Rule2(path[v])
        /\ blob[v] # blob[w]
        /\ result[v] = Bytes(blob[v])

====
